---- MODULE Spec2Model ----
(***************************************************************************)
(* The request pipeline of lib/frontend/app.js (github-for-jira).          *)
(*                                                                         *)
(* The Express application is a stack of layers built by app.use /         *)
(* app.get / app.post / app.delete in source order.  A request walks the   *)
(* stack: next() moves to the next layer that matches its method and path, *)
(* next(err) moves to the next error-handling layer, and a handler that    *)
(* renders or redirects ends the request.  The session is a cookie-session *)
(* session: its data travels in the browser's signed cookie, is decoded    *)
(* into req.session when the request arrives and is written back with the  *)
(* response.                                                               *)
(*                                                                         *)
(* The layers registered before line 96 (Sentry request handler, body      *)
(* parsers, cookie-session, logging, static assets) prepare the request    *)
(* and are represented by the request record itself.                       *)
(***************************************************************************)
EXTENDS Naturals, Sequences, FiniteSets, TLC

VARIABLES
    env,          \* process.env.NODE_ENV, fixed for the life of the process
    debug,        \* whether process.env.EXCEPTION_DEBUG_MODE is set
    maintenance,  \* what isMaintenanceMode() answers right now
    cookie,       \* per browser: the session data held in its signed cookie
    tenants,      \* the TenantRecord collection, by host
    rq,           \* per browser: the request in flight (or the last one answered)
    prev,         \* the lifecycle delivery answered before the current one
    budget        \* requests still admitted in this run

vars == <<env, debug, maintenance, cookie, tenants, rq, prev, budget>>

--------------------------------------------------------------------------
(* Bounds and value domains *)

\* Requests admitted in one run of the browser model.
MaxRequests == 2

\* Requests admitted in one run of the whole-application model, which starts
\* from sessions and tenants that earlier requests have already set up.
MaxExchanges == 1

\* Lifecycle deliveries admitted in one run of the webhook model.
MaxDeliveries == 3

\* Requests admitted in one run of the model of two interleaved sessions.
MaxInterleaved == 3

\* Requests admitted in one run of the model of the configuration switches.
MaxProbes == 2

None == "none"

Browsers == {"b1", "b2"}

\* The tracker, which delivers the lifecycle webhooks.
Tracker == "jira"

Clients == Browsers \cup {Tracker}

Envs == {"production", "development", "test"}

\* Tracker hosts a well-formed xdm_e or lifecycle payload can name.
Hosts == {"h1", "h2"}

\* A non-empty xdm_e value that is no tracker host at all.
Malformed == "%bad"

\* req.query.xdm_e: None stands for an absent or empty value (both falsy).
XdmValues == {None} \cup Hosts \cup {Malformed}

Secrets == {"s1", "s2"}

States == {"Installed", "Enabled", "Disabled", "Uninstalled"}

\* The csrf secret csurf stores in a browser's session.
SecretOf(b) == IF b = "b1" THEN "k1" ELSE "k2"

\* An anti-forgery token is named by the secret it was derived from.
Tokens == {None} \cup {SecretOf(b) : b \in Browsers}

NoErr == [message |-> None, status |-> 0]

\* new Error(msg): a plain error carries no status property.
PlainError(msg) == [message |-> msg, status |-> 0]

NoRes == [status |-> 0, body |-> None]

NoBody == [host |-> None, secret |-> None, proof |-> None]

FreshSession == [jiraHost |-> None, csrfSecret |-> None, githubToken |-> FALSE]

NoRecord == [secret |-> None, state |-> None]

--------------------------------------------------------------------------
(* The application stack, in registration order *)

Layer(kind, method, path, handlers) ==
    [kind |-> kind, method |-> method, path |-> path, handlers |-> handlers]

\* app.use(fn): every method, every path.
Use(handler) == Layer("use", "ALL", <<>>, <<handler>>)

\* app.use(fn) with a four-argument fn: an error-handling layer.
UseError(handler) == Layer("error", "ALL", <<>>, <<handler>>)

\* Route parameters such as :installationId match any one path segment.
Params == {":installationId"}

BinderLayers == <<
    Use("sessionHostBinder"),
    Use("githubClientMiddleware") >>

OpenLayers == <<
    Layer("use", "ALL", <<"api">>, <<"api">>),
    Layer("route", "GET", <<"jira", "atlassian-connect.json">>, <<"getJiraConnect">>) >>

MaintenanceLayers == <<
    Use("maintenanceMode"),
    Layer("route", "GET", <<"maintenance">>, <<"csrfProtection", "getMaintenance">>) >>

GithubLayers == <<
    Layer("route", "GET", <<"github", "setup">>,
          <<"csrfProtection", "checkGithubAuth", "getGitHubSetup">>),
    Layer("route", "POST", <<"github", "setup">>,
          <<"csrfProtection", "postGitHubSetup">>),
    Layer("route", "GET", <<"github", "configuration">>,
          <<"csrfProtection", "checkGithubAuth", "getGitHubConfiguration">>),
    Layer("route", "POST", <<"github", "configuration">>,
          <<"csrfProtection", "postGitHubConfiguration">>),
    Layer("route", "GET", <<"github", "installations">>,
          <<"csrfProtection", "checkGithubAuth", "listGitHubInstallations">>),
    Layer("route", "GET", <<"github", "subscriptions", ":installationId">>,
          <<"csrfProtection", "getGitHubSubscriptions">>),
    Layer("route", "POST", <<"github", "subscription">>,
          <<"csrfProtection", "deleteGitHubSubscription">>) >>

JiraLayers == <<
    Layer("route", "GET", <<"jira", "configuration">>,
          <<"csrfProtection", "verifyJiraMiddleware", "getJiraConfiguration">>),
    Layer("route", "DELETE", <<"jira", "configuration">>,
          <<"verifyJiraMiddleware", "deleteJiraConfiguration">>),
    Layer("route", "POST", <<"jira", "sync">>,
          <<"verifyJiraMiddleware", "retrySync">>) >>

EventLayers == <<
    Layer("route", "POST", <<"jira", "events", "disabled">>,
          <<"jiraAuthenticate", "postJiraDisable">>),
    Layer("route", "POST", <<"jira", "events", "enabled">>,
          <<"jiraAuthenticate", "postJiraEnable">>),
    Layer("route", "POST", <<"jira", "events", "installed">>,
          <<"postJiraInstall">>),
    Layer("route", "POST", <<"jira", "events", "uninstalled">>,
          <<"jiraAuthenticate", "postJiraUninstall">>) >>

RootLayers == << Layer("route", "GET", <<>>, <<"getRoot">>) >>

\* Lines 157-162: the routes that fail on purpose.
BoomLayers == <<
    Layer("route", "GET", <<"boom">>, <<"boom">>),
    Layer("route", "POST", <<"boom">>, <<"boom">>) >>

\* Variants of the lifecycle wiring: a route that lost its authentication,
\* installed given one, and enabled wired to the disable handler.
EventLayersOpenUninstalled ==
    [EventLayers EXCEPT ![4].handlers = <<"postJiraUninstall">>]

EventLayersOpenEnabled ==
    [EventLayers EXCEPT ![2].handlers = <<"postJiraEnable">>]

EventLayersCheckedInstalled ==
    [EventLayers EXCEPT ![3].handlers = <<"jiraAuthenticate", "postJiraInstall">>]

EventLayersSwapped ==
    [EventLayers EXCEPT ![2].handlers = <<"jiraAuthenticate", "postJiraDisable">>]

\* Variants of the screens' wiring: DELETE /jira/configuration without its
\* session check, and GET /github/setup without its OAuth check.
JiraLayersOpenDelete ==
    [JiraLayers EXCEPT ![2].handlers = <<"deleteJiraConfiguration">>]

GithubLayersOpenSetup ==
    [GithubLayers EXCEPT ![1].handlers = <<"csrfProtection", "getGitHubSetup">>]

DiagnosticsLayers == <<
    UseError("addSentryContext"),
    UseError("sentryErrorHandler") >>

OauthLayers == <<
    Layer("route", "GET", <<"github", "login">>, <<"oauthLogin">>),
    Layer("route", "GET", <<"github", "callback">>, <<"oauthCallback">>) >>

FinalLayers == << UseError("catchErrors") >>

\* The stack with its middle sections in the order given.
Assemble(a, b, c, d, e) ==
    BinderLayers \o a \o b \o c \o d \o e
        \o RootLayers \o BoomLayers
        \o DiagnosticsLayers \o OauthLayers \o FinalLayers

\* The maintenance check registered after the /github routes.
StackMaintenanceLate ==
    Assemble(OpenLayers, GithubLayers, MaintenanceLayers, JiraLayers, EventLayers)

StackOpenUninstalled ==
    Assemble(OpenLayers, MaintenanceLayers, GithubLayers, JiraLayers,
             EventLayersOpenUninstalled)

StackOpenEnabled ==
    Assemble(OpenLayers, MaintenanceLayers, GithubLayers, JiraLayers,
             EventLayersOpenEnabled)

StackCheckedInstalled ==
    Assemble(OpenLayers, MaintenanceLayers, GithubLayers, JiraLayers,
             EventLayersCheckedInstalled)

StackSwapped ==
    Assemble(OpenLayers, MaintenanceLayers, GithubLayers, JiraLayers,
             EventLayersSwapped)

\* The session host binder registered after the maintenance check.
StackBinderLate ==
    << Use("githubClientMiddleware") >> \o OpenLayers \o MaintenanceLayers
        \o << Use("sessionHostBinder") >>
        \o GithubLayers \o JiraLayers \o EventLayers
        \o RootLayers \o BoomLayers
        \o DiagnosticsLayers \o OauthLayers \o FinalLayers

StackOpenDelete ==
    Assemble(OpenLayers, MaintenanceLayers, GithubLayers, JiraLayersOpenDelete,
             EventLayers)

StackOpenSetup ==
    Assemble(OpenLayers, MaintenanceLayers, GithubLayersOpenSetup, JiraLayers,
             EventLayers)

Stack == Assemble(OpenLayers, MaintenanceLayers, GithubLayers, JiraLayers, EventLayers)

--------------------------------------------------------------------------
(* Express dispatch *)

IsPrefix(lp, p) ==
    /\ Len(lp) <= Len(p)
    /\ \A i \in 1..Len(lp) : lp[i] = p[i]

PathEq(lp, p) ==
    /\ Len(lp) = Len(p)
    /\ \A i \in 1..Len(lp) : lp[i] = p[i] \/ lp[i] \in Params

\* Line 156: the /boom routes are registered only when EXCEPTION_DEBUG_MODE
\* is set or NODE_ENV is development; every other layer always is.
Registered(layer) ==
    layer.handlers = <<"boom">> => (debug \/ env = "development")

\* A route matches its method and whole path, and a GET route also takes
\* HEAD; use/error layers match a prefix.
Matches(layer, r) ==
    /\ Registered(layer)
    /\ IF layer.kind = "route"
       THEN /\ \/ layer.method = r.method
               \/ layer.method = "GET" /\ r.method = "HEAD"
            /\ PathEq(layer.path, r.path)
       ELSE IsPrefix(layer.path, r.path)

SetMin(S) == CHOOSE x \in S : \A y \in S : x <= y

\* Past the last layer Express hands the request to its final handler.
FinalIndex == Len(Stack) + 1

\* The next layer after i that takes the request: error-handling layers
\* only while an error is being passed on, the others only while none is.
NextLayer(i, r, failing) ==
    LET c == { j \in (i + 1)..Len(Stack) :
                 Matches(Stack[j], r) /\ ((Stack[j].kind = "error") = failing) }
    IN IF c = {} THEN FinalIndex ELSE SetMin(c)

\* The function about to run for request record r.
Handler(r) ==
    IF r.pc # "run" THEN None
    ELSE IF r.layer = FinalIndex THEN "finalhandler"
    ELSE Stack[r.layer].handlers[r.hidx]

Ran(r) == [r EXCEPT !.ran = Append(@, Handler(r))]

\* next(): the route's next function, or the next matching layer.
CallNext(r) ==
    IF r.hidx < Len(Stack[r.layer].handlers)
    THEN [Ran(r) EXCEPT !.hidx = r.hidx + 1]
    ELSE [Ran(r) EXCEPT !.layer = NextLayer(r.layer, r, FALSE), !.hidx = 1]

\* next(err): the rest of the route is skipped.
CallNextErr(r, e) ==
    [Ran(r) EXCEPT !.err = e, !.layer = NextLayer(r.layer, r, TRUE), !.hidx = 1]

\* res.status(..).render(..) / res.redirect(..): the response is sent.
Send(r, status, body) ==
    [Ran(r) EXCEPT !.pc = "done", !.res = [status |-> status, body |-> body]]

--------------------------------------------------------------------------
(* What each middleware computes *)

\* The binder keeping a host that is already bound.
BindHostIfUnset(session, xdm) ==
    IF xdm # None /\ session.jiraHost = None
    THEN [session EXCEPT !.jiraHost = xdm]
    ELSE session

\* The binder copying the parameter whether or not it is there.
BindHostAlways(session, xdm) == [session EXCEPT !.jiraHost = xdm]

\* Lines 96-101: a truthy xdm_e is written into the session.
BindHost(session, xdm) ==
    IF xdm # None THEN [session EXCEPT !.jiraHost = xdm] ELSE session

\* The test configuration's list applied in every configuration.
IgnoreMethodsEverywhere(e) == {"GET", "HEAD", "OPTIONS", "POST", "PUT"}

\* Lines 45-53: the methods csurf lets through without a token.  Outside
\* the test configuration csurf is given no options and uses its defaults.
IgnoreMethods(e) ==
    IF e = "test"
    THEN {"GET", "HEAD", "OPTIONS", "POST", "PUT"}
    ELSE {"GET", "HEAD", "OPTIONS"}

\* csurf keeps its secret in the session and creates it when missing.
CsrfSecret(session, b) ==
    IF session.csrfSecret = None THEN SecretOf(b) ELSE session.csrfSecret

\* csurf rejects a checked method whose token does not match the secret.
CsrfRejects(e, method, token, secret) ==
    /\ method \notin IgnoreMethods(e)
    /\ token # secret

\* csurf's rejection: createError(403, 'invalid csrf token').
CsrfError == [message |-> "invalid csrf token", status |-> 403]

\* The table without its 'Not Found' entry.
ErrorCodeNoNotFound(message) ==
    CASE message = "Unauthorized" -> 401
      [] message = "Forbidden" -> 403
      [] OTHER -> 400

\* Lines 174-180: errorCodes[err.message] || 400.
ErrorCode(message) ==
    CASE message = "Unauthorized" -> 401
      [] message = "Forbidden" -> 403
      [] message = "Not Found" -> 404
      [] OTHER -> 400

\* The classifier stepping aside under EXCEPTION_DEBUG_MODE as well.
BypassesWithDebug(e) == e = "development" \/ debug

\* Lines 169-172: development passes the error on instead of rendering.
Bypasses(e) == e = "development"

\* Line 143: the host the diagnostics step tags the report with.
SentryHost(r) ==
    IF r.session.jiraHost # None THEN r.session.jiraHost ELSE r.xdm

\* Express's final handler: the error's own 4xx/5xx status, or 500.
FinalStatus(e) ==
    IF e = NoErr THEN 404
    ELSE IF e.status >= 400 /\ e.status <= 599 THEN e.status ELSE 500

--------------------------------------------------------------------------
(* Requests *)

Idle == [pc |-> "idle", method |-> None, path |-> <<>>, xdm |-> None,
         token |-> None, body |-> NoBody, session |-> FreshSession,
         layer |-> 0, hidx |-> 0, err |-> NoErr, res |-> NoRes,
         ran |-> <<>>, tag |-> None,
         \* what held when the request arrived, kept for reference
         maint |-> FALSE, was |-> FreshSession, rec0 |-> NoRecord]

BrowserTargets == {
    <<"GET", <<"api", "installations">>>>,
    <<"GET", <<"jira", "atlassian-connect.json">>>>,
    <<"GET", <<"maintenance">>>>,
    <<"GET", <<"github", "setup">>>>,
    <<"POST", <<"github", "setup">>>>,
    <<"GET", <<"github", "configuration">>>>,
    <<"POST", <<"github", "configuration">>>>,
    <<"GET", <<"github", "installations">>>>,
    <<"GET", <<"github", "subscriptions", "7">>>>,
    <<"POST", <<"github", "subscription">>>>,
    <<"GET", <<"jira", "configuration">>>>,
    <<"DELETE", <<"jira", "configuration">>>>,
    <<"POST", <<"jira", "sync">>>>,
    <<"GET", <<>>>>,
    <<"GET", <<"github", "login">>>>,
    <<"GET", <<"github", "callback">>>> }

EventKinds == {"installed", "enabled", "disabled", "uninstalled"}

EventPath(kind) == <<"jira", "events", kind>>

IsEvent(r) == r.pc # "idle" /\ \E k \in EventKinds : r.path = EventPath(k)

\* The tokens a browser can submit: none, one issued to another session,
\* or the one issued to its own session once csurf has created its secret.
TokensFor(b) ==
    {None} \cup {SecretOf(c) : c \in Browsers \ {b}}
        \cup (IF cookie[b].csrfSecret = None THEN {} ELSE {cookie[b].csrfSecret})

\* installed carries {host, secret}; the other events carry {host} and a
\* proof, named by the secret it was made with.
EventBodies(kind) ==
    IF kind = "installed"
    THEN [host : Hosts, secret : Secrets \cup {None}, proof : {None}]
    ELSE [host : Hosts, secret : {None}, proof : Secrets \cup {None}]

NewRequest(b, method, path, xdm, token, body) ==
    LET r == [Idle EXCEPT !.pc = "run", !.method = method, !.path = path,
                          !.xdm = xdm, !.token = token, !.body = body,
                          !.session = cookie[b],
                          !.maint = maintenance, !.was = cookie[b],
                          !.rec0 = IF body.host \in Hosts THEN tenants[body.host]
                                   ELSE NoRecord]
    IN [r EXCEPT !.layer = NextLayer(0, r, FALSE), !.hidx = 1]

\* What is remembered of a lifecycle delivery once the next one arrives.
Delivered(r) ==
    [path |-> r.path, body |-> r.body, status |-> r.res.status,
     state |-> tenants[r.body.host].state, maint |-> r.maint]

NoDelivery ==
    [path |-> <<>>, body |-> NoBody, status |-> 0, state |-> None, maint |-> FALSE]

Quiet == \A c \in Clients : rq[c].pc # "run"

\* A request is admitted once the one before it is over; only the latest
\* exchange is kept on record.
Admit(b, r) ==
    /\ budget > 0
    /\ Quiet
    /\ rq' = [c \in Clients |-> IF c = b THEN r ELSE Idle]
    /\ prev' = IF \E c \in Clients : IsEvent(rq[c]) /\ rq[c].pc = "done"
               THEN Delivered(rq[Tracker])
               ELSE prev
    /\ budget' = budget - 1
    /\ UNCHANGED <<env, debug, maintenance, cookie, tenants>>

ArriveBrowser(b) ==
    \E t \in BrowserTargets, x \in XdmValues, k \in TokensFor(b) :
        Admit(b, NewRequest(b, t[1], t[2], x, k, NoBody))

\* Requests that probe the configuration switches: the debug routes, and
\* /github/setup with a method that is checked for a token, one that a GET
\* route serves and one no route was registered for.
OtherTargets == {
    <<"GET", <<"boom">>>>,
    <<"POST", <<"boom">>>>,
    <<"POST", <<"github", "setup">>>>,
    <<"HEAD", <<"github", "setup">>>>,
    <<"PUT", <<"github", "setup">>>> }

ArriveOther(b) ==
    \E t \in OtherTargets, k \in TokensFor(b) :
        Admit(b, NewRequest(b, t[1], t[2], None, k, NoBody))

ArriveEvent ==
    \E kind \in EventKinds :
        \E bd \in EventBodies(kind) :
            Admit(Tracker, NewRequest(Tracker, "POST", EventPath(kind), None, None, bd))

\* One session store shared by every browser.
StepSharedStore(b, r) ==
    /\ rq' = [rq EXCEPT ![b] = r]
    /\ cookie' = IF r.pc = "done" THEN [c \in Clients |-> r.session] ELSE cookie

\* The request moves on; a sent response carries the session back in the cookie.
Step(b, r) ==
    /\ rq' = [rq EXCEPT ![b] = r]
    /\ cookie' = IF r.pc = "done" THEN [cookie EXCEPT ![b] = r.session] ELSE cookie

Init ==
    /\ env \in Envs
    /\ debug = FALSE
    /\ maintenance \in BOOLEAN
    /\ cookie = [c \in Clients |-> FreshSession]
    /\ tenants = [h \in Hosts |-> NoRecord]
    /\ rq = [c \in Clients |-> Idle]
    /\ prev = NoDelivery
    /\ budget = MaxRequests

--------------------------------------------------------------------------
(* The middleware and handlers, one action each *)

\* Lines 96-101.
sessionHostBinder(b) ==
    /\ Handler(rq[b]) = "sessionHostBinder"
    /\ Step(b, CallNext([rq[b] EXCEPT !.session = BindHost(@, rq[b].xdm)]))
    /\ UNCHANGED <<env, debug, maintenance, tenants, prev, budget>>

\* Line 103: attaches the GitHub clients to res.locals and goes on.
githubClientMiddleware(b) ==
    /\ Handler(rq[b]) = "githubClientMiddleware"
    /\ Step(b, CallNext(rq[b]))
    /\ UNCHANGED <<env, debug, maintenance, tenants, prev, budget>>

\* Line 106: the admin API sub-application answers the request.
api(b) ==
    /\ Handler(rq[b]) = "api"
    /\ Step(b, Send(rq[b], 200, "api"))
    /\ UNCHANGED <<env, debug, maintenance, tenants, prev, budget>>

\* Line 109: the Connect descriptor.
getJiraConnect(b) ==
    /\ Handler(rq[b]) = "getJiraConnect"
    /\ Step(b, Send(rq[b], 200, "atlassian-connect.json"))
    /\ UNCHANGED <<env, debug, maintenance, tenants, prev, budget>>

\* getMaintenance(req, res): the maintenance response.
MaintenanceResponse(r) == Send(r, 503, "maintenance")

\* Line 112.
maintenanceMode(b) ==
    /\ Handler(rq[b]) = "maintenanceMode"
    /\ Step(b, IF maintenance THEN MaintenanceResponse(rq[b]) ELSE CallNext(rq[b]))
    /\ UNCHANGED <<env, debug, maintenance, tenants, prev, budget>>

\* Line 113: the maintenance page itself.
getMaintenance(b) ==
    /\ Handler(rq[b]) = "getMaintenance"
    /\ Step(b, MaintenanceResponse(rq[b]))
    /\ UNCHANGED <<env, debug, maintenance, tenants, prev, budget>>

\* Lines 45-53, wherever a route lists it.
csrfProtection(b) ==
    /\ Handler(rq[b]) = "csrfProtection"
    /\ LET r == rq[b]
           secret == CsrfSecret(r.session, b)
           r1 == [r EXCEPT !.session.csrfSecret = secret]
       IN Step(b, IF CsrfRejects(env, r.method, r.token, secret)
                  THEN CallNextErr(r1, CsrfError)
                  ELSE CallNext(r1))
    /\ UNCHANGED <<env, debug, maintenance, tenants, prev, budget>>

\* oauth.checkGithubAuth: without a grant the browser is sent to log in.
checkGithubAuth(b) ==
    /\ Handler(rq[b]) = "checkGithubAuth"
    /\ Step(b, IF rq[b].session.githubToken
               THEN CallNext(rq[b])
               ELSE Send(rq[b], 302, "/github/login"))
    /\ UNCHANGED <<env, debug, maintenance, tenants, prev, budget>>

\* verifyJiraMiddleware: the session must be bound to a tracker host.
verifyJiraMiddleware(b) ==
    /\ Handler(rq[b]) = "verifyJiraMiddleware"
    /\ Step(b, IF rq[b].session.jiraHost = None
               THEN CallNextErr(rq[b], PlainError("Unauthorized"))
               ELSE CallNext(rq[b]))
    /\ UNCHANGED <<env, debug, maintenance, tenants, prev, budget>>

PageHandlers == {
    "getGitHubSetup", "postGitHubSetup", "getGitHubConfiguration",
    "postGitHubConfiguration", "listGitHubInstallations", "getGitHubSubscriptions",
    "deleteGitHubSubscription", "getJiraConfiguration", "deleteJiraConfiguration",
    "retrySync" }

\* What a failing page handler may raise.
HandlerErrors == {"Forbidden", "boom"}

\* The screens' handlers: they render, or fail with some error.
pageHandler(b) ==
    /\ Handler(rq[b]) \in PageHandlers
    /\ \/ Step(b, Send(rq[b], 200, "page"))
       \/ \E m \in HandlerErrors : Step(b, CallNextErr(rq[b], PlainError(m)))
    /\ UNCHANGED <<env, debug, maintenance, tenants, prev, budget>>

\* jiraAuthenticate: the stored secret of the payload's host must verify the proof.
jiraAuthenticate(b) ==
    /\ Handler(rq[b]) = "jiraAuthenticate"
    /\ LET r == rq[b]
           rec == tenants[r.body.host]
       IN Step(b, IF rec = NoRecord THEN CallNextErr(r, PlainError("Not Found"))
                  ELSE IF r.body.proof # rec.secret
                       THEN CallNextErr(r, PlainError("Unauthorized"))
                  ELSE CallNext(r))
    /\ UNCHANGED <<env, debug, maintenance, tenants, prev, budget>>

\* postJiraInstall: stores the payload's secret; the record starts Installed.
postJiraInstall(b) ==
    /\ Handler(rq[b]) = "postJiraInstall"
    /\ LET r == rq[b]
       IN IF r.body.secret = None
          THEN Step(b, CallNextErr(r, PlainError("invalid payload")))
               /\ UNCHANGED tenants
          ELSE Step(b, Send(r, 204, None))
               /\ tenants' = [tenants EXCEPT ![r.body.host] =
                                [secret |-> r.body.secret, state |-> "Installed"]]
    /\ UNCHANGED <<env, debug, maintenance, prev, budget>>

\* The state each authenticated lifecycle handler leaves the tenant in.
StateAfter(handler) ==
    CASE handler = "postJiraEnable" -> "Enabled"
      [] handler = "postJiraDisable" -> "Disabled"
      [] handler = "postJiraUninstall" -> "Uninstalled"

Transition(b) ==
    /\ Step(b, Send(rq[b], 204, None))
    /\ tenants' = [tenants EXCEPT ![rq[b].body.host].state = StateAfter(Handler(rq[b]))]
    /\ UNCHANGED <<env, debug, maintenance, prev, budget>>

postJiraEnable(b) == Handler(rq[b]) = "postJiraEnable" /\ Transition(b)

postJiraDisable(b) == Handler(rq[b]) = "postJiraDisable" /\ Transition(b)

postJiraUninstall(b) == Handler(rq[b]) = "postJiraUninstall" /\ Transition(b)

\* Lines 136-139: the awaited call answers and the browser is redirected,
\* or it rejects inside the async handler and nothing answers the request.
getRoot(b) ==
    /\ Handler(rq[b]) = "getRoot"
    /\ \/ Step(b, Send(rq[b], 302, "external_url"))
       \/ Step(b, [Ran(rq[b]) EXCEPT !.pc = "hung"])
    /\ UNCHANGED <<env, debug, maintenance, tenants, prev, budget>>

\* Lines 157-162: 'frontend boom'.nopenope() throws, and Express passes a
\* handler's synchronous exception on as next(err).
boom(b) ==
    /\ Handler(rq[b]) = "boom"
    /\ Step(b, CallNextErr(rq[b], PlainError("nopenope is not a function")))
    /\ UNCHANGED <<env, debug, maintenance, tenants, prev, budget>>

\* The diagnostics step handing on an error of its own making.
addSentryContextReclassifies(b) ==
    /\ Handler(rq[b]) = "addSentryContext"
    /\ Step(b, CallNextErr([rq[b] EXCEPT !.tag = SentryHost(rq[b])],
                           PlainError("Unauthorized")))
    /\ UNCHANGED <<env, debug, maintenance, tenants, prev, budget>>

\* Lines 141-154.
addSentryContext(b) ==
    /\ Handler(rq[b]) = "addSentryContext"
    /\ Step(b, CallNextErr([rq[b] EXCEPT !.tag = SentryHost(rq[b])], rq[b].err))
    /\ UNCHANGED <<env, debug, maintenance, tenants, prev, budget>>

\* Line 167: reports the error and passes it on.
sentryErrorHandler(b) ==
    /\ Handler(rq[b]) = "sentryErrorHandler"
    /\ Step(b, CallNextErr(rq[b], rq[b].err))
    /\ UNCHANGED <<env, debug, maintenance, tenants, prev, budget>>

\* Line 185: the login entry point sends the browser to the source host.
oauthLogin(b) ==
    /\ Handler(rq[b]) = "oauthLogin"
    /\ Step(b, Send(rq[b], 302, "authorize"))
    /\ UNCHANGED <<env, debug, maintenance, tenants, prev, budget>>

\* Line 185: the callback stores the grant, or sends the browser back to
\* log in, or fails because the token exchange with the source host did.
oauthCallback(b) ==
    /\ Handler(rq[b]) = "oauthCallback"
    /\ \/ Step(b, Send([rq[b] EXCEPT !.session.githubToken = TRUE], 302, "/github/configuration"))
       \/ Step(b, Send(rq[b], 302, "/github/login"))
       \/ Step(b, CallNextErr(rq[b], PlainError("token exchange failed")))
    /\ UNCHANGED <<env, debug, maintenance, tenants, prev, budget>>

\* Lines 169-183.
catchErrors(b) ==
    /\ Handler(rq[b]) = "catchErrors"
    /\ Step(b, IF Bypasses(env)
               THEN CallNextErr(rq[b], rq[b].err)
               ELSE Send(rq[b], ErrorCode(rq[b].err.message), "github-error.hbs"))
    /\ UNCHANGED <<env, debug, maintenance, tenants, prev, budget>>

\* Express's own last resort, after the last layer.
finalhandler(b) ==
    /\ Handler(rq[b]) = "finalhandler"
    /\ Step(b, Send(rq[b], FinalStatus(rq[b].err),
                    IF rq[b].err = NoErr THEN "Cannot" ELSE "raw-error"))
    /\ UNCHANGED <<env, debug, maintenance, tenants, prev, budget>>

\* The operator switches maintenance mode on or off.  The flag is read once
\* per request (line 112), so a switch during a request is a switch before it.
ToggleMaintenance ==
    /\ Quiet
    /\ maintenance' = ~maintenance
    /\ UNCHANGED <<env, debug, cookie, tenants, rq, prev, budget>>

Pipeline(b) ==
    \/ sessionHostBinder(b)
    \/ githubClientMiddleware(b)
    \/ maintenanceMode(b)
    \/ addSentryContext(b)
    \/ sentryErrorHandler(b)
    \/ catchErrors(b)
    \/ finalhandler(b)

BrowserRoutes(b) ==
    \/ api(b)
    \/ getJiraConnect(b)
    \/ getMaintenance(b)
    \/ csrfProtection(b)
    \/ checkGithubAuth(b)
    \/ verifyJiraMiddleware(b)
    \/ pageHandler(b)
    \/ getRoot(b)
    \/ oauthLogin(b)
    \/ oauthCallback(b)

EventRoutes(b) ==
    \/ jiraAuthenticate(b)
    \/ postJiraInstall(b)
    \/ postJiraEnable(b)
    \/ postJiraDisable(b)
    \/ postJiraUninstall(b)

\* One browser at work.
NextBrowser ==
    \/ ArriveBrowser("b1")
    \/ Pipeline("b1")
    \/ BrowserRoutes("b1")
    \/ ToggleMaintenance

SpecBrowser == Init /\ [][NextBrowser]_vars

\* The tracker delivering lifecycle events.
NextEvents ==
    \/ ArriveEvent
    \/ Pipeline(Tracker)
    \/ EventRoutes(Tracker)
    \/ ToggleMaintenance

InitEvents ==
    /\ env \in Envs
    /\ debug = FALSE
    /\ maintenance \in BOOLEAN
    /\ cookie = [c \in Clients |-> FreshSession]
    /\ tenants = [h \in Hosts |-> NoRecord]
    /\ rq = [c \in Clients |-> Idle]
    /\ prev = NoDelivery
    /\ budget = MaxDeliveries

SpecEvents == InitEvents /\ [][NextEvents]_vars

\* A session that has been through the screens: bound to a tracker host,
\* holding a csrf secret and an OAuth grant.
SettledSession(b) ==
    [jiraHost |-> "h1", csrfSecret |-> SecretOf(b), githubToken |-> TRUE]

\* A tenant that installed and enabled the add-on.
SettledTenant == [secret |-> "s1", state |-> "Enabled"]

InitApp ==
    /\ env \in Envs
    /\ debug = FALSE
    /\ maintenance \in BOOLEAN
    /\ \E s \in {FreshSession, SettledSession("b1")} :
          cookie = [c \in Clients |-> IF c = "b1" THEN s
                                      ELSE IF c = "b2" THEN SettledSession("b2")
                                      ELSE FreshSession]
    /\ \E t \in {NoRecord, SettledTenant} :
          tenants = [h \in Hosts |-> IF h = "h1" THEN t ELSE NoRecord]
    /\ rq = [c \in Clients |-> Idle]
    /\ prev = NoDelivery
    /\ budget = MaxExchanges

\* The whole application: a browser and the tracker.
NextApp ==
    \/ ArriveBrowser("b1")
    \/ ArriveEvent
    \/ \E c \in {"b1", Tracker} : Pipeline(c) \/ BrowserRoutes(c) \/ EventRoutes(c)
    \/ ToggleMaintenance

SpecApp == InitApp /\ [][NextApp]_vars

InitDebug ==
    /\ env \in Envs
    /\ debug \in BOOLEAN
    /\ maintenance \in BOOLEAN
    /\ \E s \in {FreshSession, SettledSession("b1")} :
          cookie = [c \in Clients |-> IF c = "b1" THEN s ELSE FreshSession]
    /\ tenants = [h \in Hosts |-> NoRecord]
    /\ rq = [c \in Clients |-> Idle]
    /\ prev = NoDelivery
    /\ budget = MaxProbes

\* The application under each setting of NODE_ENV and EXCEPTION_DEBUG_MODE.
NextDebug ==
    \/ ArriveOther("b1")
    \/ Pipeline("b1")
    \/ csrfProtection("b1")
    \/ checkGithubAuth("b1")
    \/ pageHandler("b1")
    \/ boom("b1")
    \/ ToggleMaintenance

SpecDebug == InitDebug /\ [][NextDebug]_vars

\* The tenant-bound mutations, the requests two sessions interleave.
TenantTargets == {
    <<"DELETE", <<"jira", "configuration">>>>,
    <<"POST", <<"jira", "sync">>>> }

\* A browser sends its next request once its last one is over, whatever
\* the other browser's request is doing.
ArriveInterleaved(b) ==
    \E t \in TenantTargets, x \in {None} \cup Hosts :
        /\ budget > 0
        /\ rq[b].pc # "run"
        /\ rq' = [rq EXCEPT ![b] = NewRequest(b, t[1], t[2], x, None, NoBody)]
        /\ budget' = budget - 1
        /\ UNCHANGED <<env, debug, maintenance, cookie, tenants, prev>>

InitSessions ==
    /\ env \in Envs
    /\ debug = FALSE
    /\ maintenance \in BOOLEAN
    /\ cookie = [c \in Clients |-> FreshSession]
    /\ tenants = [h \in Hosts |-> NoRecord]
    /\ rq = [c \in Clients |-> Idle]
    /\ prev = NoDelivery
    /\ budget = MaxInterleaved

\* Two browsers whose requests run side by side, step by step.
NextSessions ==
    \E b \in Browsers :
        \/ ArriveInterleaved(b)
        \/ Pipeline(b)
        \/ verifyJiraMiddleware(b)
        \/ pageHandler(b)

SpecSessions == InitSessions /\ [][NextSessions]_vars

--------------------------------------------------------------------------
(* Vocabulary of the properties *)

Over(r) == r.pc \in {"done", "hung"}

Answered(r) == r.pc = "done"

HasRun(r, name) == \E i \in 1..Len(r.ran) : r.ran[i] = name

\* name ran, and before any of the functions in later.
RanBefore(r, name, later) ==
    \A j \in 1..Len(r.ran) :
        r.ran[j] \in later => \E i \in 1..(j - 1) : r.ran[i] = name

RouteHandlers ==
    PageHandlers \cup {"api", "getJiraConnect", "getMaintenance", "getRoot",
                       "oauthLogin", "oauthCallback", "postJiraInstall",
                       "postJiraEnable", "postJiraDisable", "postJiraUninstall"}

TrustChecks ==
    {"csrfProtection", "checkGithubAuth", "verifyJiraMiddleware", "jiraAuthenticate"}

IsMaintenanceResponse(r) ==
    Answered(r) /\ r.res = [status |-> 503, body |-> "maintenance"]

IsErrorPage(r) == Answered(r) /\ r.res.body = "github-error.hbs"

\* Registered ahead of the maintenance check: /api/* and the Connect descriptor.
AheadOfMaintenance(r) ==
    \/ IsPrefix(<<"api">>, r.path)
    \/ r.method = "GET" /\ r.path = <<"jira", "atlassian-connect.json">>

IsMaintenancePage(r) == r.method = "GET" /\ r.path = <<"maintenance">>

\* The request would get through every trust check of its route.
WouldPass(r) ==
    \/ /\ r.path = EventPath("enabled")
       /\ r.rec0 # NoRecord
       /\ r.body.proof = r.rec0.secret
    \/ /\ r.method = "GET" /\ r.path = <<"github", "setup">>
       /\ r.was.githubToken

--------------------------------------------------------------------------
(* C1 *)

\* C1 as stated: while the maintenance flag is active, every request to any
\* route other than the maintenance page itself, /api/* and
\* /jira/atlassian-connect.json included, gets the maintenance response and
\* no route handler runs.
C1_AllRoutesShortCircuited ==
    \A c \in Clients :
        (Over(rq[c]) /\ rq[c].maint /\ ~IsMaintenancePage(rq[c]))
            => /\ IsMaintenanceResponse(rq[c])
               /\ \A h \in RouteHandlers : ~HasRun(rq[c], h)

\* C1, amended: while the maintenance flag is active, every request to a route
\* registered after the maintenance check (the /github, /jira/configuration,
\* /jira/sync, lifecycle-event, / and OAuth routes, and the maintenance page)
\* gets the maintenance response, and neither a trust check nor a route
\* handler runs for it, whether or not it would pass its trust checks; a
\* request to /api/* or /jira/atlassian-connect.json is answered by its own
\* handler instead.
C1_MaintenancePrecedence ==
    \A c \in Clients :
        (Over(rq[c]) /\ rq[c].maint)
            => IF AheadOfMaintenance(rq[c])
               THEN /\ Answered(rq[c])
                    /\ rq[c].res.status = 200
                    /\ HasRun(rq[c], "api") \/ HasRun(rq[c], "getJiraConnect")
                    /\ ~HasRun(rq[c], "maintenanceMode")
               ELSE /\ IsMaintenanceResponse(rq[c])
                    /\ \A h \in RouteHandlers \cup TrustChecks : ~HasRun(rq[c], h)

\* A request that would pass its trust checks is answered by the short-circuit.
C1_Witness ==
    \E c \in Clients :
        /\ rq[c].maint
        /\ WouldPass(rq[c])
        /\ IsMaintenanceResponse(rq[c])

--------------------------------------------------------------------------
(* C2 *)

--------------------------------------------------------------------------
(* C3 *)

\* One step of the pipeline, with `carries` saying which parameter values
\* count as carrying the tenant parameter.
C3_Step(carries) ==
    \A c \in Clients :
        \* the stored session changes only with the answer to a carrying request
        /\ cookie'[c].jiraHost # cookie[c].jiraHost
              => /\ Answered(rq'[c])
                 /\ rq'[c].xdm \in carries
                 /\ cookie'[c].jiraHost = rq'[c].xdm
        \* a bound host is never unset
        /\ cookie[c].jiraHost # None => cookie'[c].jiraHost # None
        /\ (rq[c].pc = "run" /\ rq[c].session.jiraHost # None)
              => rq'[c].session.jiraHost # None
        \* a request that does not carry it: the binder is a no-op and no error
        /\ (rq[c].pc = "run" /\ rq[c].xdm \notin carries)
              => /\ rq'[c].session.jiraHost = rq[c].session.jiraHost
                 /\ Handler(rq[c]) = "sessionHostBinder"
                       => rq'[c].session = rq[c].session /\ rq'[c].err = NoErr

\* C3 as stated: jiraHost changes only during a request that carries the
\* parameter; a request whose parameter is absent or malformed leaves the
\* session untouched and raises no error; a bound jiraHost is never unset.
C3_MalformedIsNoOp == [][C3_Step(Hosts)]_vars

\* C3, amended: jiraHost changes only during a request that carries a
\* non-empty xdm_e, well-formed or not; a request whose parameter is absent
\* or empty leaves the session untouched and raises no error; a bound
\* jiraHost is never unset.
C3_ChangesOnlyWithParameter == [][C3_Step(XdmValues \ {None})]_vars

\* A bound session has come through a request without the parameter.
C3_Witness ==
    \E c \in Clients :
        /\ Answered(rq[c])
        /\ rq[c].xdm = None
        /\ rq[c].was.jiraHost # None
        /\ cookie[c].jiraHost = rq[c].was.jiraHost

--------------------------------------------------------------------------
(* C4 *)

--------------------------------------------------------------------------
(* C5 *)

\* The route of the request lists csrfProtection.
CsrfProtected(r) ==
    \E i \in 1..Len(Stack) :
        /\ Stack[i].kind = "route"
        /\ Matches(Stack[i], r)
        /\ \E k \in 1..Len(Stack[i].handlers) : Stack[i].handlers[k] = "csrfProtection"

Mutating(r) == r.method \in {"POST", "PUT", "DELETE"}

\* No token, or one that was not issued to this client's session.
BadToken(c, r) == r.token # SecretOf(c)

\* C5: in a non-test configuration (and with maintenance off, so that the
\* request reaches its route) a mutating request on a csrf-protected route
\* with no token, or with another session's token, ends as Forbidden: its
\* handler is not run and the response status is 403.
C5_BadTokenIs403 ==
    \A c \in Clients :
        (Over(rq[c]) /\ env # "test" /\ ~rq[c].maint
           /\ Mutating(rq[c]) /\ CsrfProtected(rq[c]) /\ BadToken(c, rq[c]))
            => /\ \A h \in PageHandlers : ~HasRun(rq[c], h)
               /\ Answered(rq[c])
               /\ rq[c].res.status = 403

--------------------------------------------------------------------------
(* C6 *)

OnTenantMutation(r) ==
    \/ r.method = "DELETE" /\ r.path = <<"jira", "configuration">>
    \/ r.method = "POST" /\ r.path = <<"jira", "sync">>

\* C6: a DELETE /jira/configuration or POST /jira/sync reaches its handler
\* only if the tenant-bound session check passed and a valid anti-forgery
\* token came with the request.
C6_MutationNeedsToken ==
    \A c \in Clients :
        (OnTenantMutation(rq[c]) /\ env # "test"
           /\ (HasRun(rq[c], "deleteJiraConfiguration") \/ HasRun(rq[c], "retrySync")))
            => /\ HasRun(rq[c], "verifyJiraMiddleware")
               /\ rq[c].session.jiraHost # None
               /\ ~BadToken(c, rq[c])

--------------------------------------------------------------------------
(* Vocabulary of the lifecycle properties *)

\* The events that must prove themselves against the stored secret.
SignedKinds == {"enabled", "disabled", "uninstalled"}

OnKind(r, kinds) == \E k \in kinds : r.path = EventPath(k)

TransitionHandlers == {"postJiraEnable", "postJiraDisable", "postJiraUninstall"}

KindState(k) ==
    CASE k = "enabled" -> "Enabled"
      [] k = "disabled" -> "Disabled"
      [] k = "uninstalled" -> "Uninstalled"

Success(r) == Answered(r) /\ r.res.status >= 200 /\ r.res.status <= 299

\* The host of the payload had a record when the request arrived.
KnownTenant(r) == r.rec0 # NoRecord

\* The proof was made with the secret on file for the payload's host.
CorrectlySigned(r) == KnownTenant(r) /\ r.body.proof = r.rec0.secret

Tampered(r) == KnownTenant(r) /\ r.body.proof # r.rec0.secret

--------------------------------------------------------------------------
(* C7 *)

\* C7 as stated (read for requests that reach their route): an enabled,
\* disabled or uninstalled request whose proof does not verify is answered
\* 401, its handler does not run and the TenantRecord is unchanged.
C7_TamperedIs401 ==
    \A c \in Clients :
        (Over(rq[c]) /\ ~rq[c].maint /\ OnKind(rq[c], SignedKinds) /\ Tampered(rq[c]))
            => /\ Answered(rq[c])
               /\ rq[c].res.status = 401
               /\ \A h \in TransitionHandlers : ~HasRun(rq[c], h)
               /\ tenants[rq[c].body.host] = rq[c].rec0

C7_Gate ==
    \A c \in Clients :
        OnKind(rq[c], SignedKinds) =>
            \* the handler runs only after the proof has been verified
            /\ (\E h \in TransitionHandlers : HasRun(rq[c], h))
                  => /\ RanBefore(rq[c], "jiraAuthenticate", TransitionHandlers)
                     /\ CorrectlySigned(rq[c])
            \* a proof that does not verify: Unauthorized, never success
            /\ (Over(rq[c]) /\ Tampered(rq[c]))
                  => /\ Answered(rq[c])
                     /\ ~Success(rq[c])
                     /\ \A h \in TransitionHandlers : ~HasRun(rq[c], h)
                     /\ tenants[rq[c].body.host] = rq[c].rec0
                     /\ IF rq[c].maint THEN IsMaintenanceResponse(rq[c])
                        ELSE /\ rq[c].err.message = "Unauthorized"
                             /\ env # "development"
                                   => IsErrorPage(rq[c]) /\ rq[c].res.status = 401

C7_Change ==
    \A c \in Clients :
        (rq[c].pc = "run" /\ OnKind(rq[c], SignedKinds) /\ tenants' # tenants)
            => /\ HasRun(rq[c], "jiraAuthenticate")
               /\ rq[c].body.proof = tenants[rq[c].body.host].secret
               /\ \A h \in Hosts \ {rq[c].body.host} : tenants'[h] = tenants[h]
               /\ tenants'[rq[c].body.host].secret = tenants[rq[c].body.host].secret

\* C7, amended: for enabled, disabled and uninstalled the handler runs and
\* installationState changes only after jiraAuthenticate verified the proof
\* against the secret stored for the payload's host; a request whose proof
\* does not verify raises Unauthorized, never succeeds and leaves the
\* TenantRecord unchanged, and outside development mode, when it is not
\* answered by the maintenance short-circuit, its status is 401.
C7_VerifiedBeforeTransition == []C7_Gate /\ [][C7_Change]_vars

\* A tampered enabled event has been answered 401.
C7_Witness ==
    \E c \in Clients :
        /\ OnKind(rq[c], {"enabled"})
        /\ Tampered(rq[c])
        /\ IsErrorPage(rq[c])
        /\ rq[c].res.status = 401

--------------------------------------------------------------------------
(* C8 *)

\* C8: installed is the only lifecycle event accepted without signature
\* verification: no signature check runs before the install handler, the
\* other events succeed only after one, and a successful installed leaves a
\* TenantRecord for the payload's host holding the payload's secret in state
\* Installed, whether the record is new or already existed.
C8_InstalledUnverified ==
    \A c \in Clients :
        /\ HasRun(rq[c], "postJiraInstall")
              => /\ OnKind(rq[c], {"installed"})
                 /\ ~HasRun(rq[c], "jiraAuthenticate")
        /\ (OnKind(rq[c], {"installed"}) /\ Over(rq[c]) /\ ~rq[c].maint)
              => HasRun(rq[c], "postJiraInstall")
        /\ (OnKind(rq[c], {"installed"}) /\ Success(rq[c]))
              => tenants[rq[c].body.host] =
                    [secret |-> rq[c].body.secret, state |-> "Installed"]
        /\ (OnKind(rq[c], SignedKinds) /\ Success(rq[c]))
              => HasRun(rq[c], "jiraAuthenticate")

\* An installed event for a host already on file has rotated its secret.
C8_Witness ==
    \E c \in Clients :
        /\ OnKind(rq[c], {"installed"})
        /\ Success(rq[c])
        /\ KnownTenant(rq[c])
        /\ rq[c].rec0.secret # rq[c].body.secret
        /\ tenants[rq[c].body.host] = [secret |-> rq[c].body.secret, state |-> "Installed"]

--------------------------------------------------------------------------
(* C9 *)

\* The delivery just answered repeats the one before it.
Redelivery(r) ==
    /\ Answered(r)
    /\ OnKind(r, SignedKinds)
    /\ prev.path = r.path
    /\ prev.body = r.body
    /\ CorrectlySigned(r)

\* C9 as stated: the same correctly signed enabled, disabled or uninstalled
\* payload delivered twice in sequence leaves installationState after the
\* second delivery as it was after the first, and both deliveries succeed.
C9_RedeliverySucceeds ==
    \A c \in Clients :
        Redelivery(rq[c])
            => /\ tenants[rq[c].body.host].state = prev.state
               /\ Success(rq[c])
               /\ prev.status >= 200 /\ prev.status <= 299

\* C9, amended: the same correctly signed enabled, disabled or uninstalled
\* payload delivered twice in sequence, neither delivery being answered by
\* the maintenance short-circuit, leaves installationState after the second
\* delivery as it was after the first, and both deliveries succeed; and
\* whatever was delivered before, in whatever order, a correctly signed
\* delivery that reaches its route succeeds and leaves the state its own
\* kind names.
C9_Idempotent ==
    \A c \in Clients :
        /\ (Redelivery(rq[c]) /\ ~rq[c].maint /\ ~prev.maint)
              => /\ tenants[rq[c].body.host].state = prev.state
                 /\ Success(rq[c])
                 /\ prev.status >= 200 /\ prev.status <= 299
        /\ \A k \in SignedKinds :
              (Answered(rq[c]) /\ OnKind(rq[c], {k}) /\ CorrectlySigned(rq[c])
                 /\ ~rq[c].maint)
                  => /\ Success(rq[c])
                     /\ tenants[rq[c].body.host] =
                           [rq[c].rec0 EXCEPT !.state = KindState(k)]

\* enabled has been delivered twice in a row and succeeded both times.
C9_Witness ==
    \E c \in Clients :
        /\ Redelivery(rq[c])
        /\ OnKind(rq[c], {"enabled"})
        /\ ~prev.maint /\ prev.status = 204
        /\ ~rq[c].maint /\ Success(rq[c])
        /\ tenants[rq[c].body.host].state = "Enabled"

--------------------------------------------------------------------------
(* C10 *)

\* C10 as stated (read for requests that reach their route): an enabled,
\* disabled or uninstalled event naming a host with no TenantRecord is
\* answered 404; its handler is not run and no record is created.
C10_UnknownTenantIs404 ==
    \A c \in Clients :
        (Over(rq[c]) /\ ~rq[c].maint /\ OnKind(rq[c], SignedKinds) /\ ~KnownTenant(rq[c]))
            => /\ Answered(rq[c])
               /\ rq[c].res.status = 404
               /\ \A h \in TransitionHandlers : ~HasRun(rq[c], h)
               /\ tenants[rq[c].body.host] = NoRecord

\* C10, amended: an enabled, disabled or uninstalled event naming a host
\* with no TenantRecord never runs its handler and creates no record; when
\* it is not answered by the maintenance short-circuit it raises Not Found,
\* and outside development mode its status is 404 (in development the error
\* is passed on and the status is Express's 500).
C10_UnknownTenant ==
    \A c \in Clients :
        (Over(rq[c]) /\ OnKind(rq[c], SignedKinds) /\ ~KnownTenant(rq[c]))
            => /\ Answered(rq[c])
               /\ \A h \in TransitionHandlers : ~HasRun(rq[c], h)
               /\ tenants[rq[c].body.host] = NoRecord
               /\ IF rq[c].maint THEN IsMaintenanceResponse(rq[c])
                  ELSE /\ rq[c].err.message = "Not Found"
                       /\ IF env = "development"
                          THEN rq[c].res = [status |-> 500, body |-> "raw-error"]
                          ELSE IsErrorPage(rq[c]) /\ rq[c].res.status = 404

\* An event for an unknown host has been answered 404.
C10_Witness ==
    \E c \in Clients :
        /\ OnKind(rq[c], {"uninstalled"})
        /\ ~KnownTenant(rq[c])
        /\ env = "test"
        /\ IsErrorPage(rq[c])
        /\ rq[c].res.status = 404

--------------------------------------------------------------------------
(* C11 *)

\* The TrackerSessionBound routes.
OnSessionBound(r) ==
    \/ r.method \in {"GET", "DELETE"} /\ r.path = <<"jira", "configuration">>
    \/ r.method = "POST" /\ r.path = <<"jira", "sync">>

SessionBoundHandlers == {"getJiraConfiguration", "deleteJiraConfiguration", "retrySync"}

\* C11 as stated (read for requests that reach their route): on a
\* TrackerSessionBound route a request whose session had no tenant host
\* before the request fails with Unauthorized and its handler is not run.
C11_NoPriorHostIsUnauthorized ==
    \A c \in Clients :
        (Over(rq[c]) /\ ~rq[c].maint /\ OnSessionBound(rq[c])
           /\ rq[c].was.jiraHost = None)
            => /\ rq[c].err.message = "Unauthorized"
               /\ \A h \in SessionBoundHandlers : ~HasRun(rq[c], h)

\* C11, amended: on a TrackerSessionBound route a request whose session has
\* no tenant host once the binder has run (none before the request and no
\* xdm_e with it) never runs its handler, and unless the maintenance
\* short-circuit answers it, it fails in verifyJiraMiddleware with
\* Unauthorized and no other error; a request that brings xdm_e to an
\* unbound session is bound by the binder first and passes the check; and a
\* handler of these routes runs only after the check, on a bound session.
C11_UnboundIsUnauthorized ==
    \A c \in Clients :
        (Over(rq[c]) /\ OnSessionBound(rq[c])) =>
            /\ (rq[c].was.jiraHost = None /\ rq[c].xdm = None)
                  => /\ \A h \in SessionBoundHandlers : ~HasRun(rq[c], h)
                     /\ IF rq[c].maint THEN IsMaintenanceResponse(rq[c])
                        ELSE /\ HasRun(rq[c], "verifyJiraMiddleware")
                             /\ rq[c].err = PlainError("Unauthorized")
            /\ (rq[c].was.jiraHost = None /\ rq[c].xdm # None /\ ~rq[c].maint)
                  => /\ \E h \in SessionBoundHandlers : HasRun(rq[c], h)
                     /\ rq[c].err.message # "Unauthorized"
            /\ (\E h \in SessionBoundHandlers : HasRun(rq[c], h))
                  => /\ RanBefore(rq[c], "verifyJiraMiddleware", SessionBoundHandlers)
                     /\ rq[c].session.jiraHost # None

\* An unbound session's DELETE /jira/configuration has been answered 401.
C11_Witness ==
    \E c \in Clients :
        /\ rq[c].method = "DELETE" /\ OnSessionBound(rq[c])
        /\ rq[c].was.jiraHost = None /\ rq[c].xdm = None
        /\ rq[c].err.message = "Unauthorized"
        /\ IsErrorPage(rq[c]) /\ rq[c].res.status = 401

--------------------------------------------------------------------------
(* C12 *)

\* The GitHubSession routes.
OnGithubSession(r) ==
    /\ r.method = "GET"
    /\ r.path \in {<<"github", "setup">>, <<"github", "configuration">>,
                    <<"github", "installations">>}

GithubSessionHandlers ==
    {"getGitHubSetup", "getGitHubConfiguration", "listGitHubInstallations"}

ErrorHandlers == {"addSentryContext", "sentryErrorHandler", "catchErrors"}

LoginRedirect == [status |-> 302, body |-> "/github/login"]

\* C12 as stated: on a GitHubSession route a request whose session holds no
\* OAuth grant is answered with a redirect to /github/login; its handler
\* does not run, no error is raised and no error handler is invoked.
C12_NoGrantIsRedirected ==
    \A c \in Clients :
        (Over(rq[c]) /\ OnGithubSession(rq[c]) /\ ~rq[c].was.githubToken)
            => /\ rq[c].res = LoginRedirect
               /\ \A h \in GithubSessionHandlers : ~HasRun(rq[c], h)
               /\ rq[c].err = NoErr
               /\ \A h \in ErrorHandlers : ~HasRun(rq[c], h)

\* C12, amended: on a GitHubSession route a request whose session holds no
\* OAuth grant never runs its handler, raises no error and invokes no error
\* handler; it is answered by oauth.checkGithubAuth with a redirect to
\* /github/login, unless the maintenance short-circuit answers it first
\* with the maintenance response; and a handler of these routes runs only
\* after oauth.checkGithubAuth, for a session that holds a grant.
C12_NoGrantRedirects ==
    \A c \in Clients :
        OnGithubSession(rq[c]) =>
            /\ (Over(rq[c]) /\ ~rq[c].was.githubToken)
                  => /\ \A h \in GithubSessionHandlers : ~HasRun(rq[c], h)
                     /\ rq[c].err = NoErr
                     /\ \A h \in ErrorHandlers : ~HasRun(rq[c], h)
                     /\ IF rq[c].maint THEN IsMaintenanceResponse(rq[c])
                        ELSE /\ HasRun(rq[c], "checkGithubAuth")
                             /\ rq[c].res = LoginRedirect
            /\ (\E h \in GithubSessionHandlers : HasRun(rq[c], h))
                  => /\ RanBefore(rq[c], "checkGithubAuth", GithubSessionHandlers)
                     /\ rq[c].was.githubToken

\* A session without a grant has been sent from /github/configuration to log in.
C12_Witness ==
    \E c \in Clients :
        /\ OnGithubSession(rq[c]) /\ rq[c].path = <<"github", "configuration">>
        /\ ~rq[c].was.githubToken /\ ~rq[c].maint
        /\ HasRun(rq[c], "checkGithubAuth")
        /\ Answered(rq[c]) /\ rq[c].res = LoginRedirect

--------------------------------------------------------------------------
(* C13 *)

\* The response is Express's own rendering of the error, not the error page.
IsRawError(r) == Answered(r) /\ r.res.body = "raw-error"

\* C13: the error classifier is bypassed only when NODE_ENV is development.
\* In every other configuration, EXCEPTION_DEBUG_MODE set or not, a request
\* that failed with an error is answered by catchErrors with the generic
\* error page and never with the raw error; in development catchErrors
\* passes the error on and the raw error is the answer.  The /boom routes
\* fail only where they are registered: under EXCEPTION_DEBUG_MODE or in
\* development.
C13_BypassOnlyInDevelopment ==
    \A c \in Clients :
        /\ (Over(rq[c]) /\ rq[c].err # NoErr)
              => /\ Answered(rq[c])
                 /\ HasRun(rq[c], "catchErrors")
                 /\ IF env = "development"
                    THEN IsRawError(rq[c]) /\ HasRun(rq[c], "finalhandler")
                    ELSE /\ IsErrorPage(rq[c])
                         /\ rq[c].res.status = ErrorCode(rq[c].err.message)
                         /\ ~HasRun(rq[c], "finalhandler")
        /\ IsRawError(rq[c]) => env = "development"
        /\ (Over(rq[c]) /\ rq[c].path = <<"boom">> /\ ~rq[c].maint
               /\ rq[c].method \in {"GET", "POST"})
              => (HasRun(rq[c], "boom") <=> (debug \/ env = "development"))

\* With EXCEPTION_DEBUG_MODE set in production, /boom has failed and has
\* been answered with the error page.
C13_Witness ==
    \E c \in Clients :
        /\ debug /\ env = "production"
        /\ HasRun(rq[c], "boom")
        /\ IsErrorPage(rq[c]) /\ rq[c].res.status = 400

--------------------------------------------------------------------------
(* C14 *)

\* How many times name has run for the request.
TimesRun(r, name) == Cardinality({i \in 1..Len(r.ran) : r.ran[i] = name})

\* C14 (outside development mode, where catchErrors is the one that
\* answers): no request is left without a response; whenever a middleware
\* or handler fails, the failure of the awaited call in the GET / handler
\* included, the error reaches catchErrors exactly once and catchErrors
\* sends the response.
C14_FailureReachesErrorHandler ==
    \A c \in Clients :
        env # "development" =>
            /\ rq[c].pc # "hung"
            /\ (Over(rq[c]) /\ rq[c].err # NoErr)
                  => /\ TimesRun(rq[c], "catchErrors") = 1
                     /\ IsErrorPage(rq[c])

--------------------------------------------------------------------------
(* C15 *)

GithubHandlers ==
    {"getGitHubSetup", "postGitHubSetup", "getGitHubConfiguration",
     "postGitHubConfiguration", "listGitHubInstallations",
     "getGitHubSubscriptions", "deleteGitHubSubscription"}

\* The verifier of the trust domain a protected handler belongs to.
VerifierOf(h) ==
    IF h \in GithubHandlers THEN "checkGithubAuth"
    ELSE IF h \in SessionBoundHandlers THEN "verifyJiraMiddleware"
    ELSE "jiraAuthenticate"

ProtectedHandlers == GithubHandlers \cup SessionBoundHandlers \cup TransitionHandlers

\* C15: a protected handler (every /github handler, the /jira/configuration
\* and /jira/sync handlers, the enabled, disabled and uninstalled handlers)
\* runs only after the verifier of its trust domain has run, exactly once,
\* and let the request through.
C15_HandlerBehindVerifier ==
    \A c \in Clients :
        \A h \in ProtectedHandlers :
            HasRun(rq[c], h)
                => /\ TimesRun(rq[c], VerifierOf(h)) = 1
                   /\ RanBefore(rq[c], VerifierOf(h), {h})

--------------------------------------------------------------------------
(* C16 *)

\* C16: for every failed request, whichever route raised the error, the
\* OAuth login and callback routes included, addSentryContext has run
\* before catchErrors deals with the error.
C16_DiagnosticsBeforeErrorHandler ==
    \A c \in Clients :
        HasRun(rq[c], "catchErrors")
            => RanBefore(rq[c], "addSentryContext", {"catchErrors"})

--------------------------------------------------------------------------
(* C17 *)

\* The step in which addSentryContext runs for some request.
C17_Step ==
    \A c \in Clients :
        (Handler(rq[c]) = "addSentryContext" /\ rq'[c] # rq[c])
            => \* the error it received goes on, to the next error handler
               /\ rq'[c].err = rq[c].err
               /\ rq'[c].pc = "run"
               /\ Handler(rq'[c]) = "sentryErrorHandler"
               /\ rq'[c].ran = Append(rq[c].ran, "addSentryContext")
               \* nothing of the session or the response is touched
               /\ rq'[c].session = rq[c].session
               /\ rq'[c].res = rq[c].res
               /\ rq'[c].res = NoRes
               /\ cookie' = cookie
               /\ tenants' = tenants
               \* only the report's tag is written
               /\ rq'[c].tag = SentryHost(rq[c])

\* C17: addSentryContext is strictly observational.  It passes exactly the
\* error it received to the next error handler, once per request, and
\* leaves the session, the response status and body and the tenant records
\* as they were, whether or not a tenant host or a request body is there.
C17_Observational ==
    /\ [](\A c \in Clients : TimesRun(rq[c], "addSentryContext") <= 1)
    /\ [][C17_Step]_vars

\* A failed request of a bound session has been through the diagnostics
\* step and the error it failed with has been answered.
C17_Witness ==
    \E c \in Clients :
        /\ HasRun(rq[c], "addSentryContext")
        /\ rq[c].tag \in Hosts
        /\ rq[c].err = PlainError("Forbidden")
        /\ IsErrorPage(rq[c]) /\ rq[c].res.status = 403

--------------------------------------------------------------------------
(* C18 *)

\* C18: the session host binder is the first of the application's own
\* middleware to run for a request and runs before the maintenance check; the maintenance check runs before any
\* trust verifier or anti-forgery check.  So a request carrying xdm_e has
\* its session bound even when the maintenance short-circuit answers it,
\* and no trust verifier runs for a request that found maintenance active.
C18_PipelineOrder ==
    \A c \in Clients :
        /\ rq[c].ran # <<>> => rq[c].ran[1] = "sessionHostBinder"
        /\ RanBefore(rq[c], "sessionHostBinder", {"maintenanceMode"})
        /\ RanBefore(rq[c], "maintenanceMode", TrustChecks)
        /\ TimesRun(rq[c], "sessionHostBinder") <= 1
        /\ TimesRun(rq[c], "maintenanceMode") <= 1
        /\ (IsMaintenanceResponse(rq[c]) /\ rq[c].xdm # None)
              => /\ rq[c].session.jiraHost = rq[c].xdm
                 /\ cookie[c].jiraHost = rq[c].xdm
        /\ rq[c].maint => \A t \in TrustChecks : ~HasRun(rq[c], t)

\* Under maintenance a fresh session's request naming a host has been
\* answered by the short-circuit, and the session is bound to that host.
C18_Witness ==
    \E c \in Clients :
        /\ rq[c].maint
        /\ rq[c].was.jiraHost = None /\ rq[c].xdm = "h2"
        /\ OnSessionBound(rq[c])
        /\ HasRun(rq[c], "maintenanceMode")
        /\ IsMaintenanceResponse(rq[c])
        /\ cookie[c].jiraHost = "h2"

--------------------------------------------------------------------------
(* C19 *)

SafeMethods == {"GET", "HEAD", "OPTIONS"}

\* The request's method is let through without a token in configuration e.
Exempt(e, method) ==
    \/ method \in SafeMethods
    \/ e = "test" /\ method \in {"POST", "PUT"}

\* C19: POST and PUT skip the anti-forgery check only in the test
\* configuration; in every other configuration only GET, HEAD and OPTIONS
\* are exempt, and DELETE is exempt in none.  Accordingly a request that
\* csrfProtection has seen with a missing or foreign token was rejected
\* exactly when its method is not exempt in the running configuration, and
\* one with its own session's token never was.
C19_ExemptionsTestOnly ==
    /\ \A e \in Envs :
          /\ "DELETE" \notin IgnoreMethods(e)
          /\ SafeMethods \subseteq IgnoreMethods(e)
          /\ \A m \in {"POST", "PUT"} : m \in IgnoreMethods(e) <=> e = "test"
          /\ e # "test" => IgnoreMethods(e) = SafeMethods
    /\ \A c \in Clients :
          HasRun(rq[c], "csrfProtection")
              => IF BadToken(c, rq[c])
                 THEN rq[c].err = CsrfError <=> ~Exempt(env, rq[c].method)
                 ELSE rq[c].err # CsrfError

\* In the test configuration a POST without a token has passed the check
\* and reached its handler.
C19_Witness ==
    \E c \in Clients :
        /\ env = "test"
        /\ rq[c].method = "POST" /\ rq[c].token = None
        /\ HasRun(rq[c], "csrfProtection")
        /\ HasRun(rq[c], "postGitHubSetup")

--------------------------------------------------------------------------
(* C20 *)

\* The tenant host a request works with, as its own cookie and its own
\* xdm_e determine it.
OwnHost(r) ==
    IF HasRun(r, "sessionHostBinder") THEN BindHost(r.was, r.xdm).jiraHost
    ELSE r.was.jiraHost

C20_Own ==
    \A c \in Browsers :
        /\ rq[c].pc # "idle"
              => \* what the handlers see
                 /\ rq[c].session.jiraHost = OwnHost(rq[c])
                 \* what the diagnostics step reports
                 /\ rq[c].tag = IF HasRun(rq[c], "addSentryContext")
                                THEN OwnHost(rq[c]) ELSE None
                 /\ (\E h \in SessionBoundHandlers : HasRun(rq[c], h))
                       => OwnHost(rq[c]) # None
        \* the stored session is the one the browser's last answer carried
        /\ Answered(rq[c]) => cookie[c] = rq[c].session
        /\ rq[c].pc = "run" => cookie[c] = rq[c].was

C20_Step ==
    \A c \in Browsers :
        \* a new request reads its own browser's cookie
        /\ (rq'[c].pc = "run" /\ rq[c].pc # "run")
              => rq'[c].session = cookie[c] /\ rq'[c].was = cookie[c]
        \* a step of one browser's request leaves the other browser alone
        /\ rq'[c] # rq[c]
              => \A d \in Browsers \ {c} :
                     rq'[d] = rq[d] /\ cookie'[d] = cookie[d]
        /\ cookie'[c] # cookie[c] => rq'[c] # rq[c] /\ Answered(rq'[c])

\* C20: however the requests of two browser sessions interleave, the tenant
\* host a request's handlers and the diagnostics step see is determined by
\* that request's own session cookie and xdm_e alone, and a request of one
\* session neither reads nor changes the other session's jiraHost.
C20_NoLeakBetweenSessions == []C20_Own /\ [][C20_Step]_vars

\* Two requests in flight together, each past its session check, each
\* bound to its own host.
C20_Witness ==
    /\ rq["b1"].pc = "run" /\ rq["b2"].pc = "run"
    /\ HasRun(rq["b1"], "verifyJiraMiddleware")
    /\ HasRun(rq["b2"], "verifyJiraMiddleware")
    /\ rq["b1"].session.jiraHost = "h1"
    /\ rq["b2"].session.jiraHost = "h2"

====
